---- MODULE Spec2Model ----
(***************************************************************************)
(* Model of the telem-gen library: WGS-84 coordinate helpers (coord.rs),   *)
(* the RandomWalk motion model (model.rs), the STANAG 4586 wrapper parser  *)
(* and checksum (protocol/stanag_4586.rs) and the CoT message binding      *)
(* (protocol/cot.rs).                                                      *)
(*                                                                         *)
(* Number representation.  f64 latitudes and longitudes are fixed-point    *)
(* integers in units of 1/DegScale degree, f32 headings and turns are      *)
(* whole degrees, distances are whole metres, metres-per-degree are        *)
(* decimetres.  The IEEE special values the code can produce are kept:     *)
(* NaN, +Inf and -Inf are three reserved integers outside the finite       *)
(* range, and every arithmetic and comparison operator below treats them   *)
(* as IEEE 754 does (NaN propagates, every ordered comparison with NaN is  *)
(* false, a finite result beyond FMax overflows to an infinity).           *)
(***************************************************************************)
EXTENDS Integers, Sequences, FiniteSets, TLC

VARIABLES
    bbox,              \* RandomWalk.bbox: [upper_left, lower_right], each <<lat, lon>>
    max_velocity_mps,  \* RandomWalk.max_velocity_mps
    last_pos,          \* RandomWalk.last_pos: <<lat, lon>>
    heading,           \* RandomWalk.heading.0
    pc,                \* "active", or "panicked" after an unwrap() on Err in next
    msg,               \* <<m>> with m the message the last next call returned; <<>> before
    cand,              \* the candidate position of the last next call, before clamping
    oob,               \* the oob flag of the last next call
    call,              \* the pending call of a library function: [fn, ...arguments]
    ret                \* <<v>> with v the value that call returned; <<>> before

vars == <<bbox, max_velocity_mps, last_pos, heading, pc, msg, cand, oob, call, ret>>

walkVars == <<bbox, max_velocity_mps, last_pos, heading, pc, msg, cand, oob>>

----------------------------------------------------------------------------
(* Floating point values *)

\* Finite magnitudes stay below FMax; beyond it a result overflows to an infinity.
FMax == 2^29

PosInf == 2^30

NegInf == 0 - 2^30

NaN == 2^30 + 1

IsNaN(x) == x = NaN

IsInf(x) == x = PosInf \/ x = NegInf

IsFinite(x) == ~IsNaN(x) /\ ~IsInf(x)

Abs(x) == IF x < 0 THEN 0 - x ELSE x

Sign(x) == IF x < 0 THEN 0 - 1 ELSE IF x > 0 THEN 1 ELSE 0

\* Integer quotient rounded toward zero.
TruncDiv(a, b) == Sign(a) * Sign(b) * (Abs(a) \div Abs(b))

Overflow(s) == IF s < 0 THEN NegInf ELSE PosInf

\* a + b
FAdd(a, b) ==
    IF IsNaN(a) \/ IsNaN(b) THEN NaN
    ELSE IF IsInf(a) /\ IsInf(b) THEN (IF a = b THEN a ELSE NaN)
    ELSE IF IsInf(a) THEN a
    ELSE IF IsInf(b) THEN b
    ELSE IF Abs(a + b) >= FMax THEN Overflow(a + b)
    ELSE a + b

\* (a * b) / d with d a positive finite scale: the product of two scaled numbers.
FMulDiv(a, b, d) ==
    IF IsNaN(a) \/ IsNaN(b) THEN NaN
    ELSE IF IsInf(a) \/ IsInf(b)
         THEN (IF a = 0 \/ b = 0 THEN NaN ELSE Overflow(Sign(a) * Sign(b)))
    ELSE IF a = 0 \/ b = 0 THEN 0
    ELSE IF Abs(a) > (FMax \div Abs(b)) THEN Overflow(Sign(a) * Sign(b))
    ELSE TruncDiv(a * b, d)

\* (a * s) / b with s a positive finite scale: the quotient of a by b, rescaled.
\* A divisor of 0 stands for a positive number too small for the fixed-point
\* grid (meter_per_deg_lon at a pole is about 7e-12, never 0.0).
FDivScaled(a, s, b) ==
    IF IsNaN(a) \/ IsNaN(b) THEN NaN
    ELSE IF IsInf(a) /\ IsInf(b) THEN NaN
    ELSE IF IsInf(a) THEN Overflow(Sign(a) * Sign(b))
    ELSE IF IsInf(b) THEN 0
    ELSE IF a = 0 THEN 0
    ELSE IF b = 0 THEN Overflow(Sign(a))
    ELSE IF Abs(a) > (FMax \div s) THEN Overflow(Sign(a) * Sign(b))
    ELSE TruncDiv(a * s, b)

\* a < b, a > b, a <= b, a >= b: false when either side is NaN.
FLt(a, b) == ~IsNaN(a) /\ ~IsNaN(b) /\ a < b

FGt(a, b) == ~IsNaN(a) /\ ~IsNaN(b) /\ a > b

FLe(a, b) == ~IsNaN(a) /\ ~IsNaN(b) /\ a <= b

FGe(a, b) == ~IsNaN(a) /\ ~IsNaN(b) /\ a >= b

\* (lo..=hi).contains(&x)
RangeContains(lo, hi, x) == FLe(lo, x) /\ FLe(x, hi)

----------------------------------------------------------------------------
(* Trigonometry on whole degrees, scaled by TrigScale *)

TrigScale == 1000

SinTable ==
    << 17, 35, 52, 70, 87, 105, 122, 139, 156, 174, 191, 208, 225, 242, 259,
       276, 292, 309, 326, 342, 358, 375, 391, 407, 423, 438, 454, 469, 485, 500,
       515, 530, 545, 559, 574, 588, 602, 616, 629, 643, 656, 669, 682, 695, 707,
       719, 731, 743, 755, 766, 777, 788, 799, 809, 819, 829, 839, 848, 857, 866,
       875, 883, 891, 899, 906, 914, 921, 927, 934, 940, 946, 951, 956, 961, 966,
       970, 974, 978, 982, 985, 988, 990, 993, 995, 996, 998, 999, 999, 1000, 1000 >>

\* sin of d degrees, d in 0..90
SinQ(d) == IF d = 0 THEN 0 ELSE SinTable[d]

\* sin of any whole number of degrees
SinDeg(d) ==
    LET a == d % 360
    IN  IF a <= 90 THEN SinQ(a)
        ELSE IF a <= 180 THEN SinQ(180 - a)
        ELSE IF a <= 270 THEN 0 - SinQ(a - 180)
        ELSE 0 - SinQ(360 - a)

CosDeg(d) == SinDeg(d + 90)

----------------------------------------------------------------------------
(* coord.rs *)

\* Point2d components are f64 degrees, held in units of 1/DegScale degree.
DegScale == 10

\* TGResult<T>
Ok(v) == [ok |-> TRUE, val |-> v, err |-> "none"]

Err(e) == [ok |-> FALSE, val |-> 0, err |-> e]

\* cos of an angle given in units of 1/DegScale degree (the angle's radians are
\* taken to the nearest whole degree of the table).
CosAngle(a) == CosDeg((a + (DegScale \div 2)) \div DegScale)

\* A latitude check whose range leaves out its upper bound (-90.0..90.0).
validate_lat_exclusive(lat) ==
    IF ~(FLe((0 - 90) * DegScale, lat) /\ FLt(lat, 90 * DegScale))
    THEN Err("InvalidCoord")
    ELSE Ok(0)

validate_lat(lat) ==
    IF ~RangeContains((0 - 90) * DegScale, 90 * DegScale, lat)
    THEN Err("InvalidCoord")
    ELSE Ok(0)

validate_lon(lon) ==
    IF ~RangeContains((0 - 180) * DegScale, 180 * DegScale, lon)
    THEN Err("InvalidCoord")
    ELSE Ok(0)

validate_lat_lon(coord) ==
    IF ~validate_lat(coord[1]).ok THEN validate_lat(coord[1])
    ELSE IF ~validate_lon(coord[2]).ok THEN validate_lon(coord[2])
    ELSE Ok(0)

BBoxWGS_new(upper_left, lower_right) ==
    IF ~validate_lat_lon(upper_left).ok THEN validate_lat_lon(upper_left)
    ELSE IF ~validate_lat_lon(lower_right).ok THEN validate_lat_lon(lower_right)
    ELSE Ok([upper_left |-> upper_left, lower_right |-> lower_right])

midpoint(box) ==
    << TruncDiv(box.upper_left[1] + box.lower_right[1], 2),
       TruncDiv(box.upper_left[2] + box.lower_right[2], 2) >>

\* Decimetres per degree of latitude:
\* 111132.92 - 559.82 cos(2 lat) + 1.175 cos(4 lat) - 0.0023 cos(6 lat) metres.
meter_per_deg_lat(lat_deg) ==
    IF ~validate_lat(lat_deg).ok THEN validate_lat(lat_deg)
    ELSE Ok( 1111329
             - TruncDiv(5598 * CosAngle(2 * lat_deg), TrigScale)
             + TruncDiv(12 * CosAngle(4 * lat_deg), TrigScale)
             - TruncDiv(23 * CosAngle(6 * lat_deg), 1000 * TrigScale) )

\* Decimetres per degree of longitude:
\* 111412.84 cos(lat) - 93.5 cos(3 lat) + 0.118 cos(5 lat) metres.
meter_per_deg_lon(lat_deg) ==
    IF ~validate_lat(lat_deg).ok THEN validate_lat(lat_deg)
    ELSE Ok( TruncDiv(1114128 * CosAngle(lat_deg), TrigScale)
             - TruncDiv(935 * CosAngle(3 * lat_deg), TrigScale)
             + TruncDiv(1 * CosAngle(5 * lat_deg), TrigScale) )

\* Heading::rot: one addition, then at most one wrap by 360.
rot(h, deg_cw) ==
    LET s == FAdd(h, deg_cw)
    IN  IF FLt(s, 0) THEN FAdd(s, 360)
        ELSE IF FGe(s, 360) THEN FAdd(s, 0 - 360)
        ELSE s

----------------------------------------------------------------------------
(* protocol/cot.rs: the fields of CotXml this library reads and writes *)

\* Cot::default(), as far as this library touches it.
Cot_default == [point |-> [lat |-> 0, lon |-> 0, hae |-> 0], uid |-> <<>>, callsign |-> <<>>]

from_coords(lat, lon, alt_hae) ==
    [Cot_default EXCEPT !.point = [lat |-> lat, lon |-> lon, hae |-> alt_hae]]

\* An agent id that reaches the uid only.
with_agent_id_uid_only(cot, agent_id) ==
    [cot EXCEPT !.uid = agent_id]

with_agent_id(cot, agent_id) ==
    [cot EXCEPT !.uid = agent_id, !.callsign = agent_id]

----------------------------------------------------------------------------
(* protocol/stanag_4586.rs *)

\* A u32 is the pair <<high 16 bits, low 16 bits>>; a u64 is four 16-bit limbs,
\* most significant first.
Limb == 65536

U32Zero == <<0, 0>>

\* The four bytes read least significant first.
from_le_bytes(b) == <<b[4] * 256 + b[3], b[2] * 256 + b[1]>>

\* u32::from_be_bytes / nom's be_u32 on four bytes
from_be_bytes(b) == <<b[1] * 256 + b[2], b[3] * 256 + b[4]>>

\* u32::to_be_bytes
to_be_bytes(u) == <<u[1] \div 256, u[1] % 256, u[2] \div 256, u[2] % 256>>

\* The u32 u is at most the buffer length n.
U32AtMost(u, n) == u[1] < Limb \div 2 /\ u[1] * Limb + u[2] <= n

\* IDD_2_5 = *b"2.5\0\0\0\0\0\0\0"
IDD_2_5 == <<50, 46, 53, 0, 0, 0, 0, 0, 0, 0>>

MSG_TYPE_VEHICLE_SPECIFIC1 == <<0, 2001>>

\* sum += x on the u64 accumulator, 0 <= x < 2^31 (wrapping at 2^64).
AddU64(sum, x) ==
    LET s0 == sum[4] + (x % Limb)
        s1 == sum[3] + (x \div Limb) + (s0 \div Limb)
        s2 == sum[2] + (s1 \div Limb)
        s3 == sum[1] + (s2 \div Limb)
    IN  <<s3 % Limb, s2 % Limb, s1 % Limb, s0 % Limb>>

\* A cast that saturates at u32::MAX instead of truncating.
AsU32Saturating(sum) ==
    IF sum[1] # 0 \/ sum[2] # 0 THEN <<Limb - 1, Limb - 1>> ELSE <<sum[3], sum[4]>>

\* `sum as u32`: the cast keeps the low 32 bits.
AsU32(sum) == <<sum[3], sum[4]>>

\* The loop of checksum over a byte string given as runs: a run <<byte, n>> is n
\* consecutive iterations that add the same byte.
RECURSIVE checksum_loop(_, _)
checksum_loop(runs, sum) ==
    IF runs = <<>> THEN sum
    ELSE checksum_loop(Tail(runs), AddU64(sum, Head(runs)[1] * Head(runs)[2]))

\* checksum(bytes), bytes given as runs
checksum_runs(runs) == AsU32(checksum_loop(runs, <<0, 0, 0, 0>>))

\* checksum(bytes) on a plain byte sequence
checksum(bytes) == checksum_runs([i \in 1 .. Len(bytes) |-> <<bytes[i], 1>>])

\* nom results: Ok((rest, value)) or Err(Error { code })
NomOk(rest, v) == [ok |-> TRUE, rest |-> rest, val |-> v, code |-> "none"]

NomErr(code) == [ok |-> FALSE, rest |-> <<>>, val |-> <<>>, code |-> code]

Drop(input, n) == SubSeq(input, n + 1, Len(input))

\* A tag that compares only the three characters "2.5" and skips the padding.
tag_text_only(t, input) ==
    IF Len(input) >= Len(t) /\ SubSeq(input, 1, 3) = SubSeq(t, 1, 3)
    THEN NomOk(Drop(input, Len(t)), t)
    ELSE NomErr("Tag")

\* nom::bytes::complete::tag
tag(t, input) ==
    IF Len(input) >= Len(t) /\ SubSeq(input, 1, Len(t)) = t
    THEN NomOk(Drop(input, Len(t)), t)
    ELSE NomErr("Tag")

\* nom::number::complete::be_u32
be_u32(input) ==
    IF Len(input) < 4 THEN NomErr("Eof")
    ELSE NomOk(Drop(input, 4), from_be_bytes(SubSeq(input, 1, 4)))

\* nom::bytes::complete::take
take(count, input) ==
    IF ~U32AtMost(count, Len(input)) THEN NomErr("Eof")
    ELSE NomOk(Drop(input, count[2]), SubSeq(input, 1, count[2]))

\* nom_parse: each `?` returns the first error.
nom_parse(bytes) ==
    LET r_idd  == tag(IDD_2_5, bytes)
        r_inst == be_u32(r_idd.rest)
        r_type == be_u32(r_inst.rest)
        r_len  == be_u32(r_type.rest)
        r_strm == be_u32(r_len.rest)
        r_seq  == be_u32(r_strm.rest)
        r_pay  == take(r_len.val, r_seq.rest)
        r_sum  == be_u32(r_pay.rest)
    IN  IF ~r_idd.ok THEN r_idd
        ELSE IF ~r_inst.ok THEN r_inst
        ELSE IF ~r_type.ok THEN r_type
        ELSE IF ~r_len.ok THEN r_len
        ELSE IF ~r_strm.ok THEN r_strm
        ELSE IF ~r_seq.ok THEN r_seq
        ELSE IF ~r_pay.ok THEN r_pay
        ELSE IF ~r_sum.ok THEN r_sum
        ELSE NomOk(r_sum.rest,
                   [header |-> [idd |-> r_idd.val, msg_instance |-> r_inst.val,
                                msg_type |-> r_type.val, msg_length |-> r_len.val,
                                stream_id |-> r_strm.val, packet_seq |-> r_seq.val],
                    payload |-> r_pay.val,
                    footer |-> [checksum |-> r_sum.val]])

\* parse: the message without the rest, or Error::ParseError.
parse(bytes) ==
    LET nom_res == nom_parse(bytes)
    IN  IF nom_res.ok THEN Ok(nom_res.val) ELSE Err("ParseError")

\* The buffer test_stanag_wrapper_hello_serde builds by hand: the tag, the header
\* fields, the payload, then the checksum of all of it.
BuildFrame(msg_instance, msg_type, msg_length, stream_id, packet_seq, payload) ==
    LET body == IDD_2_5 \o to_be_bytes(msg_instance) \o to_be_bytes(msg_type)
                \o to_be_bytes(msg_length) \o to_be_bytes(stream_id)
                \o to_be_bytes(packet_seq) \o payload
    IN  body \o to_be_bytes(checksum(body))

\* The markup side of CotXml (quick_xml with the cot_proto schema): each field is
\* written as an attribute value, numbers in decimal and strings with the five
\* XML special characters escaped; reading undoes both.  Strings are sequences
\* of one-character strings.
RECURSIVE DigitsOf(_)
DigitsOf(n) ==
    LET d == <<"0", "1", "2", "3", "4", "5", "6", "7", "8", "9">>[(n % 10) + 1]
    IN  IF n < 10 THEN <<d>> ELSE DigitsOf(n \div 10) \o <<d>>

\* Display of a fixed-point number: sign, whole part, and the fraction digit when
\* it is not zero (45.6 prints "45.6", 101.0 prints "101").
FormatNumber(x) ==
    LET whole == Abs(x) \div DegScale
        frac  == Abs(x) % DegScale
    IN  (IF x < 0 THEN <<"-">> ELSE <<>>) \o DigitsOf(whole)
        \o (IF frac = 0 THEN <<>> ELSE <<".">> \o DigitsOf(frac))

DigitValue(c) ==
    CASE c = "0" -> 0 [] c = "1" -> 1 [] c = "2" -> 2 [] c = "3" -> 3 [] c = "4" -> 4
      [] c = "5" -> 5 [] c = "6" -> 6 [] c = "7" -> 7 [] c = "8" -> 8 [] c = "9" -> 9

RECURSIVE ParseDigits(_, _)
ParseDigits(text, acc) ==
    IF text = <<>> THEN acc ELSE ParseDigits(Tail(text), acc * 10 + DigitValue(Head(text)))

\* The position of the first c in text, or 0.
RECURSIVE IndexOf(_, _, _)
IndexOf(text, c, i) ==
    IF i > Len(text) THEN 0 ELSE IF text[i] = c THEN i ELSE IndexOf(text, c, i + 1)

\* str::parse of a decimal number
ParseNumber(text) ==
    LET neg    == text # <<>> /\ Head(text) = "-"
        digits == IF neg THEN Tail(text) ELSE text
        dot    == IndexOf(digits, ".", 1)
        whole  == IF dot = 0 THEN digits ELSE SubSeq(digits, 1, dot - 1)
        frac   == IF dot = 0 THEN <<"0">> ELSE SubSeq(digits, dot + 1, Len(digits))
        mag    == ParseDigits(whole, 0) * DegScale + ParseDigits(frac, 0)
    IN  IF neg THEN 0 - mag ELSE mag

EscapeChar(c) ==
    CASE c = "&"  -> <<"&", "a", "m", "p", ";">>
      [] c = "<"  -> <<"&", "l", "t", ";">>
      [] c = ">"  -> <<"&", "g", "t", ";">>
      [] c = "\"" -> <<"&", "q", "u", "o", "t", ";">>
      [] c = "'"  -> <<"&", "a", "p", "o", "s", ";">>
      [] OTHER    -> <<c>>

RECURSIVE Escape(_)
Escape(text) == IF text = <<>> THEN <<>> ELSE EscapeChar(Head(text)) \o Escape(Tail(text))

EntityChar(name) ==
    CASE name = <<"a", "m", "p">>      -> "&"
      [] name = <<"l", "t">>           -> "<"
      [] name = <<"g", "t">>           -> ">"
      [] name = <<"q", "u", "o", "t">> -> "\""
      [] name = <<"a", "p", "o", "s">> -> "'"
      [] OTHER                         -> "?"

RECURSIVE Unescape(_)
Unescape(text) ==
    IF text = <<>> THEN <<>>
    ELSE IF Head(text) = "&" /\ IndexOf(text, ";", 1) # 0
         THEN <<EntityChar(SubSeq(text, 2, IndexOf(text, ";", 1) - 1))>>
              \o Unescape(Drop(text, IndexOf(text, ";", 1)))
         ELSE <<Head(text)>> \o Unescape(Tail(text))

\* to_bytes: quick_xml::se::to_string(self)
to_bytes(cot) ==
    [uid |-> Escape(cot.uid), callsign |-> Escape(cot.callsign),
     lat |-> FormatNumber(cot.point.lat), lon |-> FormatNumber(cot.point.lon),
     hae |-> FormatNumber(cot.point.hae)]

\* quick_xml::de::from_str
from_str(doc) ==
    [point |-> [lat |-> ParseNumber(doc.lat), lon |-> ParseNumber(doc.lon),
                hae |-> ParseNumber(doc.hae)],
     uid |-> Unescape(doc.uid), callsign |-> Unescape(doc.callsign)]

----------------------------------------------------------------------------
(* model.rs *)

\* Duration::as_millis of d = [secs, nanos]: secs * 1000 + nanos / 1_000_000 as a
\* u128, held as its four low 16-bit limbs (secs stays below 2^31 here, so all
\* higher limbs are 0).
as_millis(d) ==
    LET low == (d.secs % Limb) * 1000 + (d.nanos \div 1000000)
        mid == (d.secs \div Limb) * 1000 + (low \div Limb)
    IN  <<0, mid \div Limb, mid % Limb, low % Limb>>

\* impl Default for TimeDelta
TimeDelta_default == [msec |-> <<0, 1000>>]

\* impl From<Duration> for TimeDelta: msec: d.as_millis() as u32
TimeDelta_from(d) == [msec |-> AsU32(as_millis(d))]

\* The number of bits by which a u32 with high limb hi is longer than 24 bits.
ExtraBits(hi) ==
    IF hi < 256 THEN 0
    ELSE CHOOSE s \in 1 .. 8 : hi < 2 ^ (8 + s) /\ hi >= 2 ^ (7 + s)

\* `msec as f32`: the nearest value with a 24-bit significand, ties to even, as
\* <<hi, lo>> (hi = Limb when the value rounds up to 2^32).
AsF32(u) ==
    LET unit == 2 ^ ExtraBits(u[1])
        r    == u[2] % unit
        base == u[2] - r
        up   == 2 * r > unit \/ (2 * r = unit /\ (base \div unit) % 2 = 1)
        lo   == IF up THEN base + unit ELSE base
    IN  IF lo = Limb THEN <<u[1] + 1, 0>> ELSE <<u[1], lo>>

\* TimeDelta::seconds: self.msec as f32 / 1000.0, as <<whole seconds, thousandths>>
\* (the rounding of the division itself is below a thousandth of its result's unit
\* and is left out).
seconds(td) ==
    LET f   == AsF32(td.msec)
        low == (f[1] % 1000) * Limb + f[2]
    IN  <<(f[1] \div 1000) * Limb + (low \div 1000), low % 1000>>

\* rand::random::<f32>() is uniform in [0, 1): the draws are r / RandDen, r in 0..RandDen-1.
RandDen == 10

\* The draws taken for the speed, for the turn and for the first heading: both ends
\* of the range and the middle.
RandDraws == {0, RandDen \div 2, RandDen - 1}

\* TimeDelta.msec values passed to next: 0 and five minutes.
DeltaTs == {0, 300000}

\* Lines 111-121: the latitude after the clamp.
ClampLat(new_lat) ==
    IF FGt(new_lat, bbox.upper_left[1]) THEN bbox.upper_left[1]
    ELSE IF FLt(new_lat, bbox.lower_right[1]) THEN bbox.lower_right[1]
    ELSE new_lat

\* Lines 122-132: the longitude after the clamp.
ClampLon(new_lon) ==
    IF FLt(new_lon, bbox.upper_left[2]) THEN bbox.upper_left[2]
    ELSE IF FGt(new_lon, bbox.lower_right[2]) THEN bbox.lower_right[2]
    ELSE new_lon

LatOob(new_lat) == FGt(new_lat, bbox.upper_left[1]) \/ FLt(new_lat, bbox.lower_right[1])

LonOob(new_lon) == FLt(new_lon, bbox.upper_left[2]) \/ FGt(new_lon, bbox.lower_right[2])

\* A bounce that flips the heading once per clamped axis.
BouncePerAxis(h, lat_oob, lon_oob) ==
    IF lat_oob /\ lon_oob THEN rot(rot(h, 180), 180)
    ELSE IF lat_oob \/ lon_oob THEN rot(h, 180)
    ELSE h

\* Lines 110-135: oob is set by either clamp, and the heading is flipped when it is set.
Bounce(h, lat_oob, lon_oob) == IF lat_oob \/ lon_oob THEN rot(h, 180) ELSE h

\* Lines 99-100: both unwraps succeed.
UnwrapsOk(lat) == meter_per_deg_lat(lat).ok /\ meter_per_deg_lon(lat).ok

\* RandomWalk::next(delta_t), with the two random draws r_vel / RandDen and
\* r_turn / RandDen.  Each \E over a one-element set is a let binding.
next(delta_t, r_vel, r_turn) ==
    /\ pc = "active"
    /\ \E vel \in {FMulDiv(r_vel, max_velocity_mps, RandDen)},
          turn \in {TruncDiv((2 * r_turn - RandDen) * 10, 2 * RandDen)} :
       \E h \in {rot(heading, turn)}, dist_m \in {FMulDiv(delta_t, vel, 1000)} :
       \E delta_x \in {FMulDiv(dist_m, CosDeg(h), TrigScale)},
          delta_y \in {FMulDiv(dist_m, SinDeg(h), TrigScale)} :
          IF ~UnwrapsOk(last_pos[1])
          THEN /\ pc' = "panicked"
               /\ heading' = h
               /\ UNCHANGED <<last_pos, msg, cand, oob>>
          ELSE \E delta_lat \in {FDivScaled(delta_y, 10 * DegScale,
                                            meter_per_deg_lat(last_pos[1]).val)},
                  delta_lon \in {FDivScaled(delta_x, 10 * DegScale,
                                            meter_per_deg_lon(last_pos[1]).val)} :
               \E new_lat \in {FAdd(last_pos[1], delta_lat)},
                  new_lon \in {FAdd(last_pos[2], delta_lon)} :
               \E is_oob \in {LatOob(new_lat) \/ LonOob(new_lon)} :
                  /\ heading' = Bounce(h, LatOob(new_lat), LonOob(new_lon))
                  /\ last_pos' = <<ClampLat(new_lat), ClampLon(new_lon)>>
                  /\ msg' = <<from_coords(ClampLat(new_lat), ClampLon(new_lon), 0)>>
                  /\ cand' = <<new_lat, new_lon>>
                  /\ oob' = is_oob
                  /\ pc' = "active"
    /\ UNCHANGED <<bbox, max_velocity_mps, call, ret>>

Next_step == \E delta_t \in DeltaTs, r_vel \in RandDraws, r_turn \in RandDraws :
                 next(delta_t, r_vel, r_turn)

\* Boxes handed to RandomWalk::new, corners in 1/DegScale degree: the shape of the
\* repository's test box, a box whose upper edge is the north pole, a box in the
\* southern and eastern hemispheres, and a box with its corners swapped.
Box(ul_lat, ul_lon, lr_lat, lr_lon) ==
    [upper_left |-> <<ul_lat, ul_lon>>, lower_right |-> <<lr_lat, lr_lon>>]

TestBox == Box(390, 0 - 1100, 388, 0 - 1098)

PolarBox == Box(900, 10, 898, 12)

SouthEastBox == Box(0 - 10, 20, 0 - 12, 22)

SwappedBox == Box(388, 0 - 1098, 390, 0 - 1100)

\* The (bbox, max_velocity_mps) pairs RandomWalk::new is called with.
WalkConfigs ==
    { <<TestBox, 100>>, <<PolarBox, 100>>, <<SouthEastBox, 100>>, <<SwappedBox, 100>>,
      <<TestBox, 0>>, <<TestBox, NaN>>, <<TestBox, PosInf>> }

Idle == [fn |-> "none"]

\* RandomWalk::new(bbox, max_velocity_mps): the walk starts at the box midpoint with
\* a heading of rand * 360 degrees.
Init ==
    /\ \E cfg \in WalkConfigs, r \in RandDraws :
          /\ bbox = cfg[1]
          /\ max_velocity_mps = cfg[2]
          /\ last_pos = midpoint(cfg[1])
          /\ heading = TruncDiv(r * 360, RandDen)
    /\ pc = "active"
    /\ msg = <<>>
    /\ cand = last_pos
    /\ oob = FALSE
    /\ call = Idle
    /\ ret = <<>>

Next == Next_step

Spec == Init /\ [][Next]_vars

----------------------------------------------------------------------------
(* Calls of the library's functions *)

\* All sequences over S of length at most n.
SeqsUpTo(S, n) == UNION { [1 .. k -> S] : k \in 0 .. n }

\* checksum inputs: up to MaxRuns runs of a byte 0, 1 or 255 repeated 1 or 2^23 times.
MaxRuns == 4

ChecksumInputs == SeqsUpTo({0, 1, 255} \X {1, 2^23}, MaxRuns)

\* Payloads of up to MaxPayload bytes.
MaxPayload == 2

Payloads == SeqsUpTo({72, 255}, MaxPayload)

PayloadLength(payload) == <<0, Len(payload)>>

\* The header values frames are built from.
SerdeFields ==
    [msg_instance : {U32Zero, <<258, 772>>},
     msg_type     : {MSG_TYPE_VEHICLE_SPECIFIC1, <<1, 0>>},
     stream_id    : {<<0, 1>>, <<65535, 0>>},
     packet_seq   : {<<Limb - 1, Limb - 1>>, <<0, 7>>},
     payload      : Payloads]

\* A frame as the test builds it, with the usual header values.
PlainFrame(payload) ==
    BuildFrame(U32Zero, MSG_TYPE_VEHICLE_SPECIFIC1, PayloadLength(payload), <<0, 1>>,
               <<Limb - 1, Limb - 1>>, payload)

\* Ways a received buffer differs from a frame: one tag byte changed, another
\* declared length, another checksum, bytes after the frame; then cut short.
Replace(buf, at, bytes) ==
    [i \in 1 .. Len(buf) |-> IF i >= at /\ i < at + Len(bytes) THEN bytes[i - at + 1] ELSE buf[i]]

Mangled(frame) ==
    {frame, frame \o <<7>>}
    \cup { Replace(frame, i, <<(frame[i] + 1) % 256>>) : i \in 1 .. 10 }
    \cup { Replace(frame, 19, to_be_bytes(l)) :
              l \in {U32Zero, <<0, 1>>, <<0, 3>>, <<1, 0>>, <<Limb - 1, Limb - 1>>} }
    \cup { Replace(frame, Len(frame) - 3, to_be_bytes(c)) : c \in {U32Zero, <<4660, 22136>>} }

ParseInputs ==
    UNION { { SubSeq(buf, 1, n) : n \in 0 .. Len(buf) } :
            buf \in UNION { Mangled(PlainFrame(p)) : p \in Payloads } }

\* Corner coordinates handed to BBoxWGS::new, in 1/DegScale degree.
LatInputs == {0 - 901, 0 - 900, 0 - 899, 0, 407, 900, 901, NaN, PosInf}

LonInputs == {0 - 1801, 0 - 1800, 0 - 1188, 0, 1800, 1801, NaN}

\* Heading::rot arguments, in degrees.
RotInputs == {0 - 725, 0 - 361, 0 - 360, 0 - 5, 0, 4, 180, 359, 360, 361, 720, 725}

\* Agent ids, and the coordinates of a CoT message (45.6, -122.7, 101.0 are the test's).
AgentIds ==
    { <<>>, <<"w", "_", "f">>, <<"a", "&", "b">>, <<"<", "x", ">">>, <<"\"", "'">>,
      <<"&", "a", "m", "p", ";">> }

CotLats == {456, 0 - 5, 0, 0 - 900}

CotLons == {0 - 1227, 1800, 7}

CotHaes == {1010, 0, 0 - 15}

\* Durations handed to TimeDelta::from: short ones, 2^24 ms and its neighbours,
\* and the ones around 2^32 ms = 4294967.296 s.
Durations ==
    [secs  : {0, 1, 300, 16777, 4294967, 4294968, 8589934},
     nanos : {0, 999999, 1000000, 215000000, 217000000, 295000000, 296000000, 999999999}]

Calls ==
    [fn : {"checksum"}, runs : ChecksumInputs]
    \cup [fn : {"parse"}, bytes : ParseInputs]
    \cup [fn : {"stanag_serde"}, fields : SerdeFields]
    \cup [fn : {"BBoxWGS::new"}, upper_left : LatInputs \X LonInputs,
          lower_right : LatInputs \X LonInputs]
    \cup [fn : {"rot"}, h : 0 .. 359, deg_cw : RotInputs]
    \cup [fn : {"cot_serde"}, lat : CotLats, lon : CotLons, hae : CotHaes, agent_id : AgentIds]
    \cup [fn : {"TimeDelta::from"}, d : Durations]
    \cup [fn : {"TimeDelta::default"}]

Returns(v) ==
    /\ ret = <<>>
    /\ ret' = <<v>>
    /\ UNCHANGED <<call, bbox, max_velocity_mps, last_pos, heading, pc, msg, cand, oob>>

Call_checksum ==
    /\ call.fn = "checksum"
    /\ Returns(checksum_runs(call.runs))

Call_parse ==
    /\ call.fn = "parse"
    /\ Returns(parse(call.bytes))

\* test_stanag_wrapper_hello_serde: build the frame, parse it.
Call_stanag_serde ==
    /\ call.fn = "stanag_serde"
    /\ \E msg_bytes \in { BuildFrame(call.fields.msg_instance, call.fields.msg_type,
                                     PayloadLength(call.fields.payload),
                                     call.fields.stream_id, call.fields.packet_seq,
                                     call.fields.payload) } :
          Returns(parse(msg_bytes))

Call_BBoxWGS_new ==
    /\ call.fn = "BBoxWGS::new"
    /\ Returns(BBoxWGS_new(call.upper_left, call.lower_right))

Call_rot ==
    /\ call.fn = "rot"
    /\ Returns(rot(call.h, call.deg_cw))

\* test_cot_serde: build the message, serialize it, read it back.
Call_cot_serde ==
    /\ call.fn = "cot_serde"
    /\ LET cot == with_agent_id(from_coords(call.lat, call.lon, call.hae), call.agent_id)
       IN  Returns([cot |-> cot, cot2 |-> from_str(to_bytes(cot))])

\* A Duration converted, and the seconds next would read from it.
Call_TimeDelta_from ==
    /\ call.fn = "TimeDelta::from"
    /\ \E td \in { TimeDelta_from(call.d) } :
          Returns([td |-> td, seconds |-> seconds(td)])

Call_TimeDelta_default ==
    /\ call.fn = "TimeDelta::default"
    /\ Returns([td |-> TimeDelta_default, seconds |-> seconds(TimeDelta_default)])

LibInit ==
    /\ call \in Calls
    /\ ret = <<>>
    /\ bbox = TestBox
    /\ max_velocity_mps = 0
    /\ last_pos = midpoint(TestBox)
    /\ heading = 0
    /\ pc = "idle"
    /\ msg = <<>>
    /\ cand = midpoint(TestBox)
    /\ oob = FALSE

LibNext ==
    \/ Call_checksum
    \/ Call_parse
    \/ Call_stanag_serde
    \/ Call_BBoxWGS_new
    \/ Call_rot
    \/ Call_cot_serde
    \/ Call_TimeDelta_from
    \/ Call_TimeDelta_default

LibSpec == LibInit /\ [][LibNext]_vars

----------------------------------------------------------------------------
(* Claims about the library's functions *)

Returned(fn) == call.fn = fn /\ ret # <<>>

RECURSIVE SumHigh(_)
SumHigh(runs) ==
    IF runs = <<>> THEN 0 ELSE ((Head(runs)[1] * Head(runs)[2]) \div Limb) + SumHigh(Tail(runs))

RECURSIVE SumLow(_)
SumLow(runs) ==
    IF runs = <<>> THEN 0 ELSE ((Head(runs)[1] * Head(runs)[2]) % Limb) + SumLow(Tail(runs))

\* The sum of all bytes of the runs is (SumHigh + carry) * 2^16 + low part; modulo
\* 2^32 only the low 16 bits of the high part stay.
SumMod32(runs) ==
    <<(SumHigh(runs) + (SumLow(runs) \div Limb)) % Limb, SumLow(runs) % Limb>>

WithoutZeroBytes(runs) == SelectSeq(runs, LAMBDA r : r[1] # 0)

\* C2: checksum(bytes) is the sum of all byte values modulo 2^32, wrapping; the
\* empty input gives 0 and bytes equal to 0 do not change the result.
C2_ChecksumIsSumMod32 ==
    Returned("checksum") =>
        /\ ret[1] = SumMod32(call.runs)
        /\ ret[1] = checksum_runs(WithoutZeroBytes(call.runs))
        /\ call.runs = <<>> => ret[1] = U32Zero
        /\ checksum(<<>>) = U32Zero
        /\ checksum(<<1, 1, 1, 1, 0, 0>>) = <<0, 4>>
        /\ checksum(<<255, 255, 255, 255, 1, 1>>) = <<0, 1022>>

\* A checksum of more than 2^32 in total, with a zero byte among the input.
C2_Witness ==
    /\ Returned("checksum")
    /\ SumHigh(call.runs) + (SumLow(call.runs) \div Limb) >= Limb
    /\ \E i \in 1 .. Len(call.runs) : call.runs[i][1] = 0

SerdeBuffer ==
    BuildFrame(call.fields.msg_instance, call.fields.msg_type,
               PayloadLength(call.fields.payload), call.fields.stream_id,
               call.fields.packet_seq, call.fields.payload)

\* C3: a buffer laid out as tag, instance, type, L, stream id, packet sequence,
\* payload, checksum parses into a Message with the original header values,
\* msg_length = L = the payload's length, the original payload (buffer offsets
\* 30 to 30+L) and the footer checksum of the bytes before it.
C3_FrameRoundTrip ==
    Returned("stanag_serde") =>
        LET f   == call.fields
            buf == SerdeBuffer
            L   == Len(f.payload)
        IN  /\ Len(buf) = 34 + L
            /\ SubSeq(buf, 1, 10) = IDD_2_5
            /\ SubSeq(buf, 11, 30) = to_be_bytes(f.msg_instance) \o to_be_bytes(f.msg_type)
                                     \o <<0, 0, L \div 256, L % 256>>
                                     \o to_be_bytes(f.stream_id) \o to_be_bytes(f.packet_seq)
            /\ ret[1].ok
            /\ ret[1].val.header.idd = IDD_2_5
            /\ ret[1].val.header.msg_instance = f.msg_instance
            /\ ret[1].val.header.msg_type = f.msg_type
            /\ ret[1].val.header.stream_id = f.stream_id
            /\ ret[1].val.header.packet_seq = f.packet_seq
            /\ ret[1].val.header.msg_length = <<0, L>>
            /\ Len(ret[1].val.payload) = L
            /\ ret[1].val.payload = f.payload
            /\ ret[1].val.payload = SubSeq(buf, 31, 30 + L)
            /\ ret[1].val.footer.checksum = checksum(SubSeq(buf, 1, 30 + L))

\* A parsed frame with a two-byte payload and the packet sequence sentinel.
C3_Witness ==
    /\ Returned("stanag_serde")
    /\ ret[1].ok
    /\ ret[1].val.payload = <<72, 255>>
    /\ ret[1].val.header.packet_seq = <<Limb - 1, Limb - 1>>
    /\ ret[1].val.header.msg_instance = <<258, 772>>

\* The buffer begins with the tag and holds at least 34 + L bytes, L read at offsets 18..22.
Accepted(bytes) ==
    /\ Len(bytes) >= 22
    /\ \A i \in 1 .. 10 : bytes[i] = IDD_2_5[i]
    /\ bytes[19] = 0 /\ bytes[20] = 0
    /\ Len(bytes) >= 34 + bytes[21] * 256 + bytes[22]

\* C4: parse returns a Message exactly when the buffer begins with the 10 tag bytes
\* and holds at least 34 + L bytes, and Error::ParseError otherwise; whatever the
\* last 4 bytes are, the outcome is the same.
C4_ParseAcceptance ==
    Returned("parse") =>
        /\ ret[1].ok <=> Accepted(call.bytes)
        /\ ~ret[1].ok => ret[1].err = "ParseError"
        /\ Len(call.bytes) >= 4 =>
              \A c \in { U32Zero, <<Limb - 1, Limb - 1>>,
                         checksum(SubSeq(call.bytes, 1, Len(call.bytes) - 4)) } :
                  parse(Replace(call.bytes, Len(call.bytes) - 3, to_be_bytes(c))).ok = ret[1].ok

\* A buffer parse accepts although its checksum field is not the checksum of the
\* bytes before it.
C4_Witness ==
    /\ Returned("parse")
    /\ ret[1].ok
    /\ Len(call.bytes) = 34 + Len(ret[1].val.payload)
    /\ ret[1].val.footer.checksum # checksum(SubSeq(call.bytes, 1, Len(call.bytes) - 4))

LatInRange(lat) == lat \in ((0 - 90) * DegScale) .. (90 * DegScale)

LonInRange(lon) == lon \in ((0 - 180) * DegScale) .. (180 * DegScale)

\* C5: BBoxWGS::new succeeds exactly when both corners have latitude in [-90, 90]
\* and longitude in [-180, 180], and returns Error::InvalidCoord otherwise; the
\* corners are not compared with each other.
C5_BBoxValidation ==
    Returned("BBoxWGS::new") =>
        /\ ret[1].ok <=> /\ LatInRange(call.upper_left[1]) /\ LonInRange(call.upper_left[2])
                         /\ LatInRange(call.lower_right[1]) /\ LonInRange(call.lower_right[2])
        /\ ~ret[1].ok => ret[1].err = "InvalidCoord"
        /\ ret[1].ok => ret[1].val = [upper_left |-> call.upper_left,
                                      lower_right |-> call.lower_right]

\* A box accepted with both bounds met exactly and its corners in swapped order.
C5_Witness ==
    /\ Returned("BBoxWGS::new")
    /\ ret[1].ok
    /\ call.upper_left = <<0 - 900, 1800>>
    /\ call.lower_right = <<900, 0 - 1800>>

\* C6: for every heading in [0, 360) and every increment deg_cw, the heading after
\* rot is at least 0 and less than 360.
C6_HeadingNormalized ==
    Returned("rot") => (0 <= ret[1] /\ ret[1] < 360)

WholeSeconds(u) ==
    LET low == (u[1] % 1000) * Limb + u[2]
    IN  <<(u[1] \div 1000) * Limb + (low \div 1000), low % 1000>>

Longer(d2, d1) == d2.secs > d1.secs \/ (d2.secs = d1.secs /\ d2.nanos > d1.nanos)

U32Le(a, b) == a[1] < b[1] \/ (a[1] = b[1] /\ a[2] <= b[2])

\* C11: TimeDelta::from(d) stores the whole number of milliseconds of d, seconds()
\* is that count divided by 1000 (to the precision of an f32), a longer Duration
\* never gives a smaller TimeDelta, and TimeDelta::default() is 1000 ms.
C11_DurationKept ==
    /\ Returned("TimeDelta::from") =>
          /\ WholeSeconds(ret[1].td.msec) = <<call.d.secs, call.d.nanos \div 1000000>>
          /\ (ret[1].seconds[1] - WholeSeconds(ret[1].td.msec)[1]) * 1000
                + (ret[1].seconds[2] - WholeSeconds(ret[1].td.msec)[2]) \in (0 - 128) .. 128
          /\ \A d1 \in Durations :
                Longer(call.d, d1) => U32Le(TimeDelta_from(d1).msec, ret[1].td.msec)
    /\ Returned("TimeDelta::default") =>
          /\ ret[1].td.msec = <<0, 1000>>
          /\ ret[1].seconds = <<1, 0>>

----------------------------------------------------------------------------
(* Claims about RandomWalk *)

MinOf(a, b) == IF a <= b THEN a ELSE b

MaxOf(a, b) == IF a >= b THEN a ELSE b

\* x lies between the two corner values a and b, inclusive (false for NaN).
Between(a, b, x) == RangeContains(MinOf(a, b), MaxOf(a, b), x)

InsideBox(p) ==
    /\ Between(bbox.upper_left[1], bbox.lower_right[1], p[1])
    /\ Between(bbox.upper_left[2], bbox.lower_right[2], p[2])

\* C1: after RandomWalk::new and after every next call, last_pos has its latitude
\* between the latitudes of the two box corners and its longitude between their
\* longitudes, inclusive, and the returned message carries that same position.
C1_PositionInsideBox ==
    /\ InsideBox(last_pos)
    /\ msg # <<>> => (msg[1].point.lat = last_pos[1] /\ msg[1].point.lon = last_pos[2])

\* C10: next never panics: neither unwrap of meter_per_deg_lat / meter_per_deg_lon
\* meets an InvalidCoord error, in any reachable state.
C10_NextNeverPanics ==
    /\ pc = "active"
    /\ UnwrapsOk(last_pos[1])

\* The heading of the last next call right after the turn, before any bounce.
HeadingAfterTurn == IF oob THEN rot(heading, 180) ELSE heading

\* C8: in a next call that is not clamped and moves the position, a heading (after
\* the turn) of 0 increases latitude only, 90 increases longitude only, 180
\* decreases latitude only and 270 decreases longitude only.
C8_CompassHeading ==
    [][ (pc' = "active" /\ ~oob' /\ IsFinite(last_pos'[1]) /\ IsFinite(last_pos'[2])
         /\ last_pos' # last_pos)
        => /\ heading' = 0   => (last_pos'[1] > last_pos[1] /\ last_pos'[2] = last_pos[2])
           /\ heading' = 90  => (last_pos'[2] > last_pos[2] /\ last_pos'[1] = last_pos[1])
           /\ heading' = 180 => (last_pos'[1] < last_pos[1] /\ last_pos'[2] = last_pos[2])
           /\ heading' = 270 => (last_pos'[2] < last_pos[2] /\ last_pos'[1] = last_pos[1])
      ]_vars

\* The turn increments (rand - 0.5) * 10 can take, in whole degrees: -5 up to 5.
TurnRange == (0 - 5) .. 5

====
